---- MODULE Spec2Model ----
(***************************************************************************)
(* Model of the DAOVoting registry (contracts/DAOVoting.sol): proposal     *)
(* lifecycle, per-proposal nullifier bookkeeping and tallying, gated by    *)
(* the external Groth16 verifier.  Every external call of the contract is  *)
(* one atomic action; a revert rolls the whole storage back and only the   *)
(* outcome of the call is observable (variable last).                      *)
(*                                                                         *)
(* The member tool (scripts: generate-member, cast) with its Merkle tree   *)
(* and the Vote circuit (circuits/vote.circom) are modelled next to it:    *)
(* the tool keeps the member list, builds the tree, assembles a witness    *)
(* and asks the prover, which succeeds exactly on witnesses that satisfy   *)
(* every constraint of the circuit.  Spec runs the registry, ToolSpec the  *)
(* member tool, CircuitSpec the prover on witnesses of every shape and     *)
(* TreeSpec the Merkle tree of the circuit test (test/circuit-demo.spec.js)*)
(* on arbitrary leaf lists, TallySpec the votes file and the tally command.*)
(***************************************************************************)
EXTENDS Integers, Sequences, FiniteSets, TLC

\* ------------------------------------------------------------------ bounds
\* Number of proposals createProposal may allocate in a run.
MaxProposals == 2
\* Nullifier hashes voters may submit are 1..MaxNullifier.
MaxNullifier == 2
\* block.timestamp runs over 0..MaxTime.
MaxTime == 1
\* Largest voteValue submitted; uint8 values above 2 are all treated alike.
MaxVoteValue == 3
\* Scaled-down type(uint256).max, the width of the deadline arithmetic: the
\* smallest width in which every timestamp fits and one sum overflows.
UintMax == MaxTime + 1
\* Members the tool may generate in a run.
MaxMembers == 4
\* The random nullifier and secret of a member are drawn from 0..MaxField.
MaxField == 1
\* Scaled-down CONFIG.merkleTreeHeight, the levels argument of the tool's
\* tree, which is also the levels parameter of the circuit (both 20).
merkleTreeHeight == 3
\* Leaves the tree test may push before it builds the tree.
MaxLeaves == 5
\* Records the cast command may append to the votes file in a run.
MaxVotes == 3

Nullifiers == 1..MaxNullifier
\* proposalId arguments: every id that can be allocated plus one that never is.
ProposalIds == 0..MaxProposals
VoteValues == 0..MaxVoteValue
\* duration arguments: every value of the unsigned type.
Durations == 0..UintMax
Descriptions == {"d"}
\* The membership root handed to the constructor.
DeployedRoot == "root"

\* ------------------------------------------------------------------- state
VARIABLES
    now,             \* block.timestamp of the host ledger
    merkleRoot,      \* immutable, set by the constructor
    proposalCount,   \* uint256 public proposalCount
    proposals,       \* mapping(uint256 => Proposal)
    usedNullifiers,  \* mapping(uint256 => bool), as the set of true keys
    voteCastLog,     \* VoteCast events in the ledger's log, counted per
                     \* (proposalId, voteValue)
    last,            \* outcome of the most recent external call
    prev,            \* block time and storage at the entry of that call
    members,         \* the member tool's members file
    lastCast,        \* outcome of the tool's most recent cast command
    lastProve,       \* the witness last given to the prover and its verdict
    commitments,     \* the leaf list of the tree test
    tree,            \* the MerkleTree object built from it
    treeOp,          \* the test's most recent step and what it returned
    votes,           \* the member tool's votes file
    lastTally        \* what the tool's most recent tally command reported

registryVars ==
    <<now, merkleRoot, proposalCount, proposals, usedNullifiers, voteCastLog,
      last, prev>>
toolVars == <<members, lastCast>>
proverVars == <<lastProve>>
treeVars == <<commitments, tree, treeOp>>
tallyVars == <<votes, lastTally>>
vars == <<registryVars, toolVars, proverVars, treeVars, tallyVars>>
storage == <<merkleRoot, proposalCount, proposals, usedNullifiers>>

\* The block time and the contract storage, as one value.
Snapshot ==
    [now |-> now, merkleRoot |-> merkleRoot, proposalCount |-> proposalCount,
     proposals |-> proposals, usedNullifiers |-> usedNullifiers]

\* A storage slot of the proposals mapping that was never written.
EmptyProposal ==
    [description |-> "", deadline |-> 0, yesVotes |-> 0, noVotes |-> 0,
     abstainVotes |-> 0, executed |-> FALSE, nullifiers |-> {}]

\* The observable outcome of one external call: its arguments, the error it
\* reverted with ("OK" if none), what the verifier was asked and answered
\* ("none" when it was not called), the event emitted and the value returned.
Outcome(op, result, pid, n, v, duration, input, verified, event, ret) ==
    [op |-> op, result |-> result, pid |-> pid, nullifierHash |-> n,
     voteValue |-> v, duration |-> duration, input |-> input,
     verified |-> verified, event |-> event, ret |-> ret]

\* No call has been made since the last block-time change.
NoCall == Outcome("none", "OK", 0, 0, 0, 0, <<>>, "none", <<>>, <<>>)

\* ------------------------------------------------------------ proof oracle
\* A Groth16 proof is abstracted to the public statement it was generated
\* for; "forged" stands for every proof that proves no statement under the
\* deployed root (malformed, or made for another tree).  A caller submits
\* either the proof made for exactly the inputs of its call or one that is not.
Proofs(proposalId, nullifierHash, voteValue) ==
    {<<DeployedRoot, nullifierHash, proposalId, voteValue>>, <<"forged">>}

\* IVerifier.verifyProof(a, b, c, input): pure and deterministic.
verifyProof(proof, input) == proof = input

\* Bug variant: nullifierHash and proposalId change places in the input.
publicInput_Swapped(proposalId, nullifierHash, voteValue) ==
    <<merkleRoot, proposalId, nullifierHash, voteValue>>

\* Bug variant: the proposal id is left out of the statement that is verified.
publicInput_NoProposal(proposalId, nullifierHash, voteValue) ==
    <<merkleRoot, nullifierHash, 0, voteValue>>

\* uint[4] memory input = [merkleRoot, nullifierHash, proposalId, voteValue]
publicInput(proposalId, nullifierHash, voteValue) ==
    <<merkleRoot, nullifierHash, proposalId, voteValue>>

\* -------------------------------------------------------------------- hash
\* Field elements are written as integer sequences in prefix notation, so
\* that the hash is collision-free by construction and never meets a value
\* that was not hashed: <<0, k>> is the number k, <<1>> \o a the Poseidon
\* hash of one element and <<2>> \o a \o b the Poseidon hash of two.
Fe(k) == <<0, k>>
Poseidon1(a) == <<1>> \o a
Poseidon2(a, b) == <<2>> \o a \o b
\* What JavaScript yields for a read past the end of an array.
Undefined == <<>>

\* -------------------------------------------------------------- MerkleTree
\* zero_values[0] = zero_value (0n); zero_values[i] = hasher of two copies
\* of zero_values[i-1].
RECURSIVE zero_values(_)
zero_values(i) ==
    IF i = 0 THEN Fe(0)
    ELSE Poseidon2(zero_values(i - 1), zero_values(i - 1))

\* array[i] with JavaScript's 0-based index.
at(array, i) == IF i >= 0 /\ i < Len(array) THEN array[i + 1] ELSE Undefined

\* One round of buildTree: pairs left to right, the unmatched last node is
\* paired with the level's zero value.
nextLevel(currentLevel, level) ==
    [j \in 1..((Len(currentLevel) + 1) \div 2) |->
        Poseidon2(at(currentLevel, 2 * (j - 1)),
                  IF 2 * (j - 1) + 1 < Len(currentLevel)
                  THEN at(currentLevel, 2 * (j - 1) + 1)
                  ELSE zero_values(level))]

\* this.layers[level] after the constructor: layers[0] = leaves.
RECURSIVE layers(_, _)
layers(leaves, level) ==
    IF level = 0 THEN leaves
    ELSE nextLevel(layers(leaves, level - 1), level - 1)

\* getRoot(): this.layers[this.levels - 1][0]
getRoot(levels, leaves) == at(layers(leaves, levels - 1), 0)

RECURSIVE pow2(_)
pow2(k) == IF k = 0 THEN 1 ELSE 2 * pow2(k - 1)

\* The pathElement getProof pushes at a level, index being the value the
\* loop variable holds at that level.
pathElementAt(leaves, level, index) ==
    LET position == index % 2
        levelIndex == index \div 2
        currentLevel == layers(leaves, level)
    IN IF position = 0
       THEN IF levelIndex + 1 < Len(currentLevel)
            THEN at(currentLevel, levelIndex * 2 + 1)
            ELSE zero_values(level)
       ELSE at(currentLevel, levelIndex * 2)

\* Bug variant: getProof walks every level, the top one included.
getProof_FullHeight(levels, leaves, index) ==
    [pathElements |->
         [k \in 1..levels |->
             pathElementAt(leaves, k - 1, index \div pow2(k - 1))],
     pathIndices |->
         [k \in 1..levels |-> (index \div pow2(k - 1)) % 2]]

\* getProof(index): one pathElement and one pathIndex per level below the
\* top, the index being halved from level to level.
getProof(levels, leaves, index) ==
    [pathElements |->
         [k \in 1..(levels - 1) |->
             pathElementAt(leaves, k - 1, index \div pow2(k - 1))],
     pathIndices |->
         [k \in 1..(levels - 1) |-> (index \div pow2(k - 1)) % 2]]

\* ----------------------------------------------------------------- circuit
\* Bug variant: the selector is ignored, the current hash always goes left.
RECURSIVE currentLevelHash_IgnoresIndex(_, _, _, _)
currentLevelHash_IgnoresIndex(leaf, pathElements, pathIndices, i) ==
    IF i = 0 THEN leaf
    ELSE Poseidon2(currentLevelHash_IgnoresIndex(leaf, pathElements,
                                                 pathIndices, i - 1),
                   pathElements[i])

\* MerkleTreeChecker: currentLevel[0] = leaf; at level i the selector puts
\* the current hash left when pathIndices[i] = 0 and right when it is 1.
RECURSIVE currentLevelHash(_, _, _, _)
currentLevelHash(leaf, pathElements, pathIndices, i) ==
    IF i = 0 THEN leaf
    ELSE LET current == currentLevelHash(leaf, pathElements, pathIndices, i - 1)
         IN IF pathIndices[i] = 0
            THEN Poseidon2(current, pathElements[i])
            ELSE Poseidon2(pathElements[i], current)

\* Bug variant: the checker before the Num2Bits(1) constraints were added.
MerkleTreeChecker_NoBinaryCheck(levels, leaf, root, pathElements, pathIndices) ==
    /\ Len(pathElements) = levels
    /\ Len(pathIndices) = levels
    /\ root = currentLevelHash(leaf, pathElements, pathIndices, levels)

\* MerkleTreeChecker(levels): every path index is a bit and the hash reached
\* after the last level is the root.
MerkleTreeChecker(levels, leaf, root, pathElements, pathIndices) ==
    /\ Len(pathElements) = levels
    /\ Len(pathIndices) = levels
    /\ \A i \in 1..levels : pathIndices[i] \in {0, 1}
    /\ root = currentLevelHash(leaf, pathElements, pathIndices, levels)

\* CommitmentHasher: commitment = Poseidon(nullifier, secret).
commitment(nullifier, secret) == Poseidon2(Fe(nullifier), Fe(secret))

\* The levels parameter of the main component, Vote(20): the number the
\* tool is configured with.
circuitLevels == merkleTreeHeight

\* The circuit computes in a prime field; the model's field is the smallest
\* prime field that holds every number the model uses as a field element.
IsPrime(p) == p > 1 /\ \A d \in 2..(p - 1) : p % d # 0
FieldPrime ==
    LET floor == MaxVoteValue + MaxProposals + MaxField
    IN CHOOSE p \in (floor + 1)..(2 * floor + 2) :
           IsPrime(p) /\ \A q \in (floor + 1)..(p - 1) : ~IsPrime(q)
FieldElements == 0..(FieldPrime - 1)
fsub(a, b) == (a - b + FieldPrime) % FieldPrime
fmul(a, b) == (a * b) % FieldPrime

\* Bug variant: the polynomial has the roots 0 and 1 only.
voteValueConstraint_TwoRoots(voteValue) ==
    fmul(voteValue, fsub(voteValue, 1)) = 0

\* voteValue * (voteValue - 1) * (voteValue - 2) === 0
voteValueConstraint(voteValue) ==
    fmul(fmul(voteValue, fsub(voteValue, 1)), fsub(voteValue, 2)) = 0

\* Bug variant: the circuit before the proposalId check was added.
VoteCircuit_NoProposalCheck(levels, w) ==
    /\ voteValueConstraint(w.voteValue)
    /\ w.nullifier # 0
    /\ w.secret # 0
    /\ Poseidon1(Fe(w.nullifier)) = w.nullifierHash
    /\ MerkleTreeChecker(levels,
                         Poseidon2(commitment(w.nullifier, w.secret),
                                   Fe(w.proposalId)),
                         w.root, w.pathElements, w.pathIndices)

\* Vote(levels): the constraints a witness has to satisfy.
VoteCircuit(levels, w) ==
    /\ voteValueConstraint(w.voteValue)
    /\ w.nullifier # 0
    /\ w.secret # 0
    /\ w.proposalId # 0
    /\ Poseidon1(Fe(w.nullifier)) = w.nullifierHash
    /\ MerkleTreeChecker(levels,
                         Poseidon2(commitment(w.nullifier, w.secret),
                                   Fe(w.proposalId)),
                         w.root, w.pathElements, w.pathIndices)

\* ------------------------------------------------------------- member tool
\* The words given to cast --vote, and String.toLowerCase on them.
VoteWords == {"no", "yes", "abstain", "YES", "maybe"}
toLowerCase(word) == IF word = "YES" THEN "yes" ELSE word

\* The words the member tool accepts for a vote and the values it maps them to.
voteMap == [no |-> 0, yes |-> 1, abstain |-> 2]

\* component main {public [root, nullifierHash, proposalId, voteValue]}
circuitPublicSignals(w) == <<w.root, w.nullifierHash, w.proposalId, w.voteValue>>

\* publicSignals of the member tool's verify command: the root of the tree
\* rebuilt from the members file, then three fields of the stored vote.
verifyPublicSignals(root, stored) ==
    <<root, stored.nullifierHash, stored.proposalId, voteMap[stored.vote]>>

\* No witness was assembled.
NoWitness ==
    [root |-> Undefined, nullifierHash |-> Undefined, proposalId |-> 0,
     voteValue |-> 0, nullifier |-> 0, secret |-> 0,
     pathElements |-> <<>>, pathIndices |-> <<>>]

\* The outcome of a cast command: how it ended, its options, the root and
\* inclusion proof it computed and the witness it handed to the prover.
CastOutcome(result, proposal, word, member, root, proof, witness) ==
    [result |-> result, proposal |-> proposal, vote |-> word,
     member |-> member, root |-> root, proof |-> proof, witness |-> witness]

NoProof == [pathElements |-> <<>>, pathIndices |-> <<>>]
NoCast == CastOutcome("none", 0, "", 0, Undefined, NoProof, NoWitness)

\* The prover has not been given a witness.
NoProve == [witness |-> NoWitness, satisfied |-> FALSE, done |-> FALSE]

\* The tally command has not been run since the votes file last changed.
NoTally ==
    [done |-> FALSE, proposal |-> 0, found |-> FALSE, yes |-> 0, no |-> 0,
     abstain |-> 0]

\* The tree test has not constructed its tree.
NoTree == [levels |-> 0, leaves |-> <<>>, layers |-> <<>>]

\* A step of the tree test: what it did, the index it asked a proof for, the
\* proof returned, and the leaf list and tree object it started from.
TreeOp(op, index, proof, leavesBefore, treeBefore) ==
    [op |-> op, index |-> index, proof |-> proof,
     leavesBefore |-> leavesBefore, treeBefore |-> treeBefore]
NoTreeOp == TreeOp("none", 0, NoProof, <<>>, NoTree)

\* const leaves = members.map(m => BigInt(m.commitment))
leavesOf(memberList) ==
    [k \in 1..Len(memberList) |-> memberList[k].commitment]

\* ------------------------------------------------------------- constructor
\* Bug variant: the constructor does not store the root it is given.
Init_RootUnset ==
    /\ now = 0
    /\ merkleRoot = "unset"
    /\ proposalCount = 0
    /\ proposals = [i \in ProposalIds |-> EmptyProposal]
    /\ usedNullifiers = {}
    /\ voteCastLog = [p \in ProposalIds |-> [v \in VoteValues |-> 0]]
    /\ last = NoCall
    /\ prev = Snapshot
    /\ members = <<>>
    /\ lastCast = NoCast
    /\ lastProve = NoProve
    /\ commitments = <<>>
    /\ tree = NoTree
    /\ treeOp = NoTreeOp
    /\ votes = <<>>
    /\ lastTally = NoTally

Init ==
    /\ now = 0
    /\ merkleRoot = DeployedRoot
    /\ proposalCount = 0
    /\ proposals = [i \in ProposalIds |-> EmptyProposal]
    /\ usedNullifiers = {}
    /\ voteCastLog = [p \in ProposalIds |-> [v \in VoteValues |-> 0]]
    /\ last = NoCall
    /\ prev = Snapshot
    /\ members = <<>>
    /\ lastCast = NoCast
    /\ lastProve = NoProve
    /\ commitments = <<>>
    /\ tree = NoTree
    /\ treeOp = NoTreeOp
    /\ votes = <<>>
    /\ lastTally = NoTally

\* ---------------------------------------------------------- createProposal
\* Bug variant: unchecked arithmetic, the sum is never refused.
deadlineOverflows_Never(duration) == FALSE

\* block.timestamp + duration in checked uint256 arithmetic.
deadlineOverflows(duration) == now + duration > UintMax

\* Bug variant: the deadline is the duration itself, not an offset from the
\* block time.
deadlineOf_NoNow(duration) == duration

\* deadline: block.timestamp + duration
deadlineOf(duration) == now + duration

createProposal(description, duration) ==
    /\ proposalCount < MaxProposals
    /\ prev' = Snapshot
    /\ UNCHANGED voteCastLog
    /\ IF deadlineOverflows(duration)
       THEN /\ UNCHANGED <<now, storage>>
            /\ last' = Outcome("createProposal", "Panic", 0, 0, 0, duration,
                                  <<>>, "none", <<>>, <<>>)
       ELSE LET proposalId == proposalCount
                deadline == deadlineOf(duration)
            IN /\ proposalCount' = proposalCount + 1
               /\ proposals' = [proposals EXCEPT
                      ![proposalId].description = description,
                      ![proposalId].deadline = deadline]
               /\ last' = Outcome("createProposal", "OK", proposalId, 0, 0,
                                  duration, <<>>, "none",
                                  <<"ProposalCreated", proposalId, deadline>>,
                                  <<proposalId>>)
               /\ UNCHANGED <<now, merkleRoot, usedNullifiers>>

\* -------------------------------------------------------------------- vote
\* Bug variant: the id equal to proposalCount passes the existence check.
ProposalDoesNotExist_OffByOne(proposalId) == proposalId > proposalCount

\* if (proposalId >= proposalCount) revert ProposalDoesNotExist();
ProposalDoesNotExist(proposalId) == proposalId >= proposalCount

InvalidVoteValue(voteValue) == voteValue > 2

\* Bug variant: the deadline itself already counts as closed.
VotingEnded_Inclusive(proposalId) == now >= proposals[proposalId].deadline

\* Bug variant: vote does not look at the deadline.
VotingEnded_Never(proposalId) == FALSE

\* vote: if (block.timestamp > proposal.deadline) revert VotingEnded();
VotingEnded(proposalId) == now > proposals[proposalId].deadline

\* Bug variants of the nullifier check: the check left out, and the check made
\* against the global usedNullifiers mapping instead of the proposal's own.
NullifierAlreadyUsed_Never(proposalId, nullifierHash) == FALSE

NullifierAlreadyUsed_Global(proposalId, nullifierHash) ==
    nullifierHash \in usedNullifiers

NullifierAlreadyUsed(proposalId, nullifierHash) ==
    nullifierHash \in proposals[proposalId].nullifiers

\* Bug variant: the vote value is not checked before the verifier is called.
voteLocalError_NoValueCheck(proposalId, nullifierHash, voteValue) ==
    IF ProposalDoesNotExist(proposalId) THEN "ProposalDoesNotExist"
    ELSE IF VotingEnded(proposalId) THEN "VotingEnded"
    ELSE IF NullifierAlreadyUsed(proposalId, nullifierHash) THEN "NullifierAlreadyUsed"
    ELSE ""

\* Bug variant: the deadline is tested before the vote value.
voteLocalError_DeadlineFirst(proposalId, nullifierHash, voteValue) ==
    IF ProposalDoesNotExist(proposalId) THEN "ProposalDoesNotExist"
    ELSE IF VotingEnded(proposalId) THEN "VotingEnded"
    ELSE IF InvalidVoteValue(voteValue) THEN "InvalidVoteValue"
    ELSE IF NullifierAlreadyUsed(proposalId, nullifierHash) THEN "NullifierAlreadyUsed"
    ELSE ""

\* The local check that makes vote revert before the verifier is called,
\* "" when all four pass.
voteLocalError(proposalId, nullifierHash, voteValue) ==
    IF ProposalDoesNotExist(proposalId) THEN "ProposalDoesNotExist"
    ELSE IF InvalidVoteValue(voteValue) THEN "InvalidVoteValue"
    ELSE IF VotingEnded(proposalId) THEN "VotingEnded"
    ELSE IF NullifierAlreadyUsed(proposalId, nullifierHash) THEN "NullifierAlreadyUsed"
    ELSE ""

\* Bug variant: an accepted vote does not record its nullifierHash.
markNullifier_Skip(proposal, nullifierHash) == proposal

\* proposal.nullifiers[nullifierHash] = true;
markNullifier(proposal, nullifierHash) ==
    [proposal EXCEPT !.nullifiers = @ \cup {nullifierHash}]

\* Bug variant: the global set is not written.
markUsed_Skip(used, nullifierHash) == used

\* usedNullifiers[nullifierHash] = true;
markUsed(used, nullifierHash) == used \cup {nullifierHash}

\* Bug variant: the yes and no counters are swapped.
tally_Swapped(proposal, voteValue) ==
    IF voteValue = 0 THEN [proposal EXCEPT !.yesVotes = @ + 1]
    ELSE IF voteValue = 1 THEN [proposal EXCEPT !.noVotes = @ + 1]
    ELSE [proposal EXCEPT !.abstainVotes = @ + 1]

\* Bug variant: an abstention is recorded but not counted.
tally_DropsAbstain(proposal, voteValue) ==
    IF voteValue = 0 THEN [proposal EXCEPT !.noVotes = @ + 1]
    ELSE IF voteValue = 1 THEN [proposal EXCEPT !.yesVotes = @ + 1]
    ELSE proposal

\* tally votes
tally(proposal, voteValue) ==
    IF voteValue = 0 THEN [proposal EXCEPT !.noVotes = @ + 1]
    ELSE IF voteValue = 1 THEN [proposal EXCEPT !.yesVotes = @ + 1]
    ELSE [proposal EXCEPT !.abstainVotes = @ + 1]

\* if (!verifier.verifyProof(a, b, c, input)) revert InvalidProof();
\* reached only when no local check reverted (local = "").
voteResult(local, answer) ==
    IF local # "" THEN local
    ELSE IF ~answer THEN "InvalidProof"
    ELSE "OK"

\* Bug variant: the nullifier is marked before the verifier answers and the
\* write survives a rejected proof.
voteStorage_MarkFirst(proposalId, nullifierHash, voteValue, result) ==
    IF result = "OK"
    THEN <<[proposals EXCEPT ![proposalId] =
                tally(markNullifier(@, nullifierHash), voteValue)],
           markUsed(usedNullifiers, nullifierHash)>>
    ELSE IF result = "InvalidProof"
    THEN <<[proposals EXCEPT ![proposalId] = markNullifier(@, nullifierHash)],
           markUsed(usedNullifiers, nullifierHash)>>
    ELSE <<proposals, usedNullifiers>>

\* What the storage holds when vote returns, given the error it reverted
\* with ("OK" when it did not): a revert discards every write of the call.
voteStorage(proposalId, nullifierHash, voteValue, result) ==
    IF result = "OK"
    THEN <<[proposals EXCEPT ![proposalId] =
                tally(markNullifier(@, nullifierHash), voteValue)],
           markUsed(usedNullifiers, nullifierHash)>>
    ELSE <<proposals, usedNullifiers>>

\* Bug variant: the event stays in the log although the call reverts.
emit_BeforeRevert(result, event) == event

\* emit: the event reaches the ledger's log unless the call reverts.
emit(result, event) == IF result = "OK" THEN event ELSE <<>>

vote(proposalId, nullifierHash, voteValue, proof) ==
    LET local == voteLocalError(proposalId, nullifierHash, voteValue)
        input == publicInput(proposalId, nullifierHash, voteValue)
        answer == verifyProof(proof, input)
        result == voteResult(local, answer)
        after == voteStorage(proposalId, nullifierHash, voteValue, result)
        event == emit(result,
                      <<"VoteCast", proposalId, nullifierHash, voteValue>>)
    IN /\ prev' = Snapshot
       /\ proposals' = after[1]
       /\ usedNullifiers' = after[2]
       /\ voteCastLog' = IF event # <<>>
                         THEN [voteCastLog EXCEPT ![proposalId][voteValue] = @ + 1]
                         ELSE voteCastLog
       /\ last' = Outcome("vote", result, proposalId, nullifierHash, voteValue,
                          0, IF local = "" THEN input ELSE <<>>,
                          IF local # "" THEN "none"
                          ELSE IF answer THEN "true" ELSE "false",
                          event, <<>>)
       /\ UNCHANGED <<now, merkleRoot, proposalCount>>

\* -------------------------------------------------------- getProposalVotes
\* Bug variant: the first two components of the returned triple are swapped.
proposalVotes_Swapped(proposal) ==
    <<proposal.noVotes, proposal.yesVotes, proposal.abstainVotes>>

\* return (proposal.yesVotes, proposal.noVotes, proposal.abstainVotes);
proposalVotes(proposal) ==
    <<proposal.yesVotes, proposal.noVotes, proposal.abstainVotes>>

getProposalVotes(proposalId) ==
    /\ prev' = Snapshot
    /\ last' = IF ProposalDoesNotExist(proposalId)
               THEN Outcome("getProposalVotes", "ProposalDoesNotExist",
                            proposalId, 0, 0, 0, <<>>, "none", <<>>, <<>>)
               ELSE Outcome("getProposalVotes", "OK", proposalId, 0, 0, 0,
                            <<>>, "none", <<>>,
                            proposalVotes(proposals[proposalId]))
    /\ UNCHANGED <<now, storage, voteCastLog>>

\* --------------------------------------------------------- executeProposal
\* Bug variant: executeProposal does not look at the deadline.
executeTooEarly_Never(proposalId) == FALSE

\* executeProposal: if (block.timestamp <= proposal.deadline) revert VotingEnded();
executeTooEarly(proposalId) == now <= proposals[proposalId].deadline

\* Bug variant: the executed flag is not checked.
executeError_NoExecutedCheck(proposalId) ==
    IF ProposalDoesNotExist(proposalId) THEN "ProposalDoesNotExist"
    ELSE IF executeTooEarly(proposalId) THEN "VotingEnded"
    ELSE "OK"

executeError(proposalId) ==
    IF ProposalDoesNotExist(proposalId) THEN "ProposalDoesNotExist"
    ELSE IF proposals[proposalId].executed THEN "ProposalAlreadyExecuted"
    ELSE IF executeTooEarly(proposalId) THEN "VotingEnded"
    ELSE "OK"

\* Bug variant: the flag is written although the call reports an error.
executeStorage_NoRevert(proposalId, result) ==
    IF result \in {"OK", "VotingEnded"}
    THEN [proposals EXCEPT ![proposalId].executed = TRUE]
    ELSE proposals

\* Bug variant: executing a proposal clears its tallies.
executeStorage_ClearsTallies(proposalId, result) ==
    IF result = "OK"
    THEN [proposals EXCEPT ![proposalId].executed = TRUE,
                           ![proposalId].yesVotes = 0,
                           ![proposalId].noVotes = 0,
                           ![proposalId].abstainVotes = 0]
    ELSE proposals

\* What the proposals mapping holds when executeProposal returns: a revert
\* discards the call, otherwise proposal.executed = true.
executeStorage(proposalId, result) ==
    IF result = "OK"
    THEN [proposals EXCEPT ![proposalId].executed = TRUE]
    ELSE proposals

executeProposal(proposalId) ==
    LET result == executeError(proposalId)
    IN /\ prev' = Snapshot
       /\ proposals' = executeStorage(proposalId, result)
       /\ last' = Outcome("executeProposal", result, proposalId, 0, 0, 0,
                          <<>>, "none",
                          emit(result, <<"ProposalExecuted", proposalId>>),
                          <<>>)
       /\ UNCHANGED <<now, merkleRoot, proposalCount, usedNullifiers,
                      voteCastLog>>

\* ------------------------------------------------------------- environment
\* The host ledger moves block.timestamp forward between calls.
Tick ==
    /\ now < MaxTime
    /\ now' = now + 1
    /\ last' = NoCall
    /\ prev' = Snapshot
    /\ UNCHANGED <<storage, voteCastLog, toolVars, proverVars, treeVars, tallyVars>>

CreateProposal ==
    /\ \E d \in Descriptions, dur \in Durations : createProposal(d, dur)
    /\ UNCHANGED <<toolVars, proverVars, treeVars, tallyVars>>

Vote ==
    /\ \E p \in ProposalIds, n \in Nullifiers, v \in VoteValues :
           \E pr \in Proofs(p, n, v) : vote(p, n, v, pr)
    /\ UNCHANGED <<toolVars, proverVars, treeVars, tallyVars>>

GetProposalVotes ==
    /\ \E p \in ProposalIds : getProposalVotes(p)
    /\ UNCHANGED <<toolVars, proverVars, treeVars, tallyVars>>

ExecuteProposal ==
    /\ \E p \in ProposalIds : executeProposal(p)
    /\ UNCHANGED <<toolVars, proverVars, treeVars, tallyVars>>

Next ==
    \/ CreateProposal
    \/ Vote
    \/ GetProposalVotes
    \/ ExecuteProposal
    \/ Tick

Spec == Init /\ [][Next]_vars

\* ---------------------------------------------------- member tool commands
\* generate-member: two random field elements, their commitment, and the
\* next free index; the member is appended to the members file.
generateMember(nullifier, secret) ==
    /\ Len(members) < MaxMembers
    /\ members' = Append(members,
                         [nullifier |-> nullifier, secret |-> secret,
                          commitment |-> commitment(nullifier, secret),
                          index |-> Len(members)])
    /\ lastCast' = NoCast
    /\ UNCHANGED <<registryVars, proverVars, treeVars, tallyVars>>

\* snarkjs.groth16.fullProve(witness, wasm, zkey) computes the circuit's
\* witness and throws unless every constraint of Vote(20) holds.
fullProve(witness) == VoteCircuit(circuitLevels, witness)

\* The witness object of cast; decimal strings stand for the numbers they
\* spell.
castWitness(member, proposal, voteValue, root, proof) ==
    [root |-> root,
     nullifierHash |-> Poseidon1(Fe(member.nullifier)),
     proposalId |-> proposal,
     voteValue |-> voteValue,
     nullifier |-> member.nullifier,
     secret |-> member.secret,
     pathElements |-> proof.pathElements,
     pathIndices |-> proof.pathIndices]

\* cast --proposal --vote --member: validates the word and the index, builds
\* the tree over the members' commitments, assembles the witness (calling
\* toString on every path element) and runs the prover.
cast(proposal, word, memberIndex) ==
    /\ lastCast' =
           IF toLowerCase(word) \notin DOMAIN voteMap
           THEN CastOutcome("InvalidVote", proposal, word, memberIndex,
                            Undefined, NoProof, NoWitness)
           ELSE IF memberIndex >= Len(members)
           THEN CastOutcome("InvalidMember", proposal, word, memberIndex,
                            Undefined, NoProof, NoWitness)
           ELSE LET voteValue == voteMap[toLowerCase(word)]
                    member == at(members, memberIndex)
                    leaves == leavesOf(members)
                    root == getRoot(merkleTreeHeight, leaves)
                    proof == getProof(merkleTreeHeight, leaves, memberIndex)
                    witness ==
                        castWitness(member, proposal, voteValue, root, proof)
                IN IF \E k \in DOMAIN proof.pathElements :
                          proof.pathElements[k] = Undefined
                   THEN CastOutcome("TypeError", proposal, word, memberIndex,
                                    root, proof, NoWitness)
                   ELSE IF ~fullProve(witness)
                   THEN CastOutcome("ProveError", proposal, word,
                                    memberIndex, root, proof, witness)
                   ELSE CastOutcome("OK", proposal, word, memberIndex,
                                    root, proof, witness)
    /\ UNCHANGED <<members, registryVars, proverVars, treeVars, tallyVars>>

GenerateMember ==
    \E nullifier \in 0..MaxField, secret \in 0..MaxField :
        generateMember(nullifier, secret)

Cast ==
    \E p \in ProposalIds, word \in VoteWords, m \in 0..MaxMembers :
        cast(p, word, m)

ToolNext ==
    \/ GenerateMember
    \/ Cast

ToolSpec == Init /\ [][ToolNext]_vars

\* ------------------------------------------------------------------ prover
\* A witness as a prover makes it who holds (nullifier, secret) and whose
\* leaf Poseidon(commitment, proposalId) sits at the given index of a tree
\* with one empty slot beside it and as many hashing levels as the circuit.
HonestWitness(nullifier, secret, proposalId, voteValue, index) ==
    LET leaf == Poseidon2(commitment(nullifier, secret), Fe(proposalId))
        leaves == IF index = 0 THEN <<leaf, Fe(0)>> ELSE <<Fe(0), leaf>>
    IN castWitness([nullifier |-> nullifier, secret |-> secret],
                   proposalId, voteValue,
                   getRoot(circuitLevels + 1, leaves),
                   getProof(circuitLevels + 1, leaves, index))

\* The ways a witness is altered before it is given to the prover.
Tampers ==
    {"none", "nullifierHash", "root", "pathIndex", "nonBinaryIndex",
     "pathElement", "short"}

Tampered(w, how) ==
    CASE how = "none" -> w
      [] how = "nullifierHash" ->
             [w EXCEPT !.nullifierHash = Poseidon1(Fe(w.nullifier + 1))]
      [] how = "root" -> [w EXCEPT !.root = Fe(0)]
      [] how = "pathIndex" -> [w EXCEPT !.pathIndices[1] = 1 - @]
      [] how = "nonBinaryIndex" -> [w EXCEPT !.pathIndices[1] = 2]
      [] how = "pathElement" -> [w EXCEPT !.pathElements[1] = Fe(1)]
      [] how = "short" ->
             [w EXCEPT
                 !.pathElements = SubSeq(@, 1, Len(@) - 1),
                 !.pathIndices = SubSeq(@, 1, Len(@) - 1)]

\* The input signals of Vote given to the prover.
Witnesses ==
    {Tampered(HonestWitness(n, sec, p, v, i), how) :
        n \in 0..MaxField, sec \in 0..MaxField, p \in ProposalIds,
        v \in FieldElements, i \in {0, 1}, how \in Tampers}

\* One run of the prover on a witness: the process that calls fullProve
\* calls it once and exits.
prove(witness) ==
    /\ ~lastProve.done
    /\ lastProve' = [witness |-> witness, satisfied |-> fullProve(witness),
                     done |-> TRUE]
    /\ UNCHANGED <<registryVars, toolVars, treeVars, tallyVars>>

Prove == \E witness \in Witnesses : prove(witness)

CircuitNext == Prove

CircuitSpec == Init /\ [][CircuitNext]_vars

\* --------------------------------------------------------------- tree test
\* The values the tree test pushes as leaves: numbers, among them the zero
\* value of the tree, and a commitment.
LeafValues == {Fe(k) : k \in 0..MaxField} \cup {commitment(1, 1)}

\* Bug variant: the constructor pads the leaf list it was given to an even
\* length.
MerkleTree_PadsLeaves(levels, leaves) ==
    LET padded == IF Len(leaves) % 2 = 1
                  THEN Append(leaves, zero_values(0)) ELSE leaves
    IN [levels |-> levels,
        leaves |-> padded,
        layers |-> [l \in 1..levels |-> layers(padded, l - 1)]]

\* new MerkleTree(levels, zero_value, leaves, hasher): this.leaves is the
\* array it was given, this.layers the levels built on it.
MerkleTree(levels, leaves) ==
    [levels |-> levels,
     leaves |-> leaves,
     layers |-> [l \in 1..levels |-> layers(leaves, l - 1)]]

\* commitments.push(...), before the tree is constructed.
pushCommitment(value) ==
    /\ tree = NoTree
    /\ Len(commitments) < MaxLeaves
    /\ commitments' = Append(commitments, value)
    /\ treeOp' = TreeOp("push", 0, NoProof, commitments, tree)
    /\ UNCHANGED <<tree, registryVars, toolVars, proverVars,
                 tallyVars>>

\* const tree = new SimpleMerkleTree(levels, 0n, commitments, hasher); the
\* object keeps the array itself, so what the constructor does to its
\* leaves is done to the caller's list.
newTree ==
    LET built == MerkleTree(merkleTreeHeight, commitments)
    IN /\ Len(commitments) >= 1
       /\ tree' = built
       /\ commitments' = built.leaves
       /\ treeOp' = TreeOp("build", 0, NoProof, commitments, tree)
       /\ UNCHANGED <<registryVars, toolVars, proverVars,
                 tallyVars>>

\* const proof = tree.getProof(index)
treeGetProof(index) ==
    /\ tree # NoTree
    /\ treeOp' = TreeOp("getProof", index,
                        getProof(tree.levels, tree.leaves, index),
                        commitments, tree)
    /\ UNCHANGED <<commitments, tree, registryVars, toolVars, proverVars,
                 tallyVars>>

PushCommitment == \E value \in LeafValues : pushCommitment(value)

TreeGetProof == \E index \in 0..(MaxLeaves - 1) : treeGetProof(index)

TreeNext ==
    \/ PushCommitment
    \/ newTree
    \/ TreeGetProof

TreeSpec == Init /\ [][TreeNext]_vars

\* ------------------------------------------------------------- vote records
\* The tail of the cast command and the tally command, on the votes file.
\* cast reaches its tail only when the prover has returned a proof; the
\* records below are the ones it writes in such runs.

\* const voteData = {proposalId, memberName, memberIndex, vote, nullifierHash,
\* proof, timestamp}: the fields the tally command reads.  vote is the word
\* as it was typed (options.vote), not the lower-cased one.
voteData(proposal, word, nullifierHash) ==
    [proposalId |-> proposal, vote |-> word, nullifierHash |-> nullifierHash]

\* cast, for a run in which the prover succeeded: the word is validated in
\* lower case, then votes.push(voteData) and the file is written back.
saveVote(proposal, word, nullifierHash) ==
    /\ toLowerCase(word) \in DOMAIN voteMap
    /\ Len(votes) < MaxVotes
    /\ votes' = Append(votes, voteData(proposal, word, nullifierHash))
    /\ lastTally' = NoTally
    /\ UNCHANGED <<registryVars, toolVars, proverVars, treeVars>>

\* votes.filter(v => v.proposalId === options.proposal)
filterVotes(allVotes, proposal) ==
    SelectSeq(allVotes, LAMBDA v : v.proposalId = proposal)

\* tally[vote.vote]++ on the object {yes, no, abstain}: a key that is not one
\* of the three gets NaN under its own name and the three counters stay.
tallyIncrement(counters, word) ==
    IF word \in DOMAIN counters
    THEN [counters EXCEPT ![word] = @ + 1]
    ELSE counters

\* proposalVotes.forEach: a record whose nullifierHash was seen is skipped,
\* otherwise the hash is added to the set and the record is counted.
RECURSIVE tallyLoop(_, _)
tallyLoop(records, k) ==
    IF k = 0
    THEN [counters |-> [yes |-> 0, no |-> 0, abstain |-> 0], nullifiers |-> {}]
    ELSE LET before == tallyLoop(records, k - 1)
             v == records[k]
         IN IF v.nullifierHash \in before.nullifiers
            THEN before
            ELSE [counters |-> tallyIncrement(before.counters, v.vote),
                  nullifiers |-> before.nullifiers \cup {v.nullifierHash}]

\* tally --proposal: what the command reports.
tallyCommand(proposal) ==
    LET proposalRecords == filterVotes(votes, proposal)
        result == tallyLoop(proposalRecords, Len(proposalRecords))
    IN /\ lastTally' =
              [done |-> TRUE, proposal |-> proposal,
               found |-> Len(proposalRecords) > 0,
               yes |-> result.counters.yes, no |-> result.counters.no,
               abstain |-> result.counters.abstain]
       /\ UNCHANGED <<votes, registryVars, toolVars, proverVars, treeVars>>

SaveVote ==
    \E p \in ProposalIds, word \in VoteWords, n \in Nullifiers :
        saveVote(p, word, n)

TallyCommand == \E p \in ProposalIds : tallyCommand(p)

TallyNext ==
    \/ SaveVote
    \/ TallyCommand

TallySpec == Init /\ [][TallyNext]_vars

\* ------------------------------------------------------------------ claims
\* The properties below relate the outcome of the most recent call (last) to
\* the block time and storage at its entry (prev) and at its return.

\* The proposal named by the most recent call, at its entry and at its return.
lastBefore == prev.proposals[last.pid]
lastAfter == proposals[last.pid]

\* The most recent call named a proposal createProposal had returned.
lastKnown == last.pid < prev.proposalCount

\* C1: double-vote prevention.  A vote is accepted only if its nullifierHash
\* was not yet recorded for its proposal and is recorded afterwards, no call
\* ever removes a recorded nullifierHash (so at most one vote per proposal
\* and nullifierHash is accepted), and a vote on a known, still open proposal
\* with a value in {0,1,2} whose nullifierHash is already recorded fails with
\* NullifierAlreadyUsed, whatever proof comes with it.
C1_NoDoubleVote ==
    /\ (last.op = "vote" /\ last.result = "OK") =>
           /\ lastKnown
           /\ last.nullifierHash \notin lastBefore.nullifiers
           /\ last.nullifierHash \in lastAfter.nullifiers
    /\ \A q \in ProposalIds :
           prev.proposals[q].nullifiers \subseteq proposals[q].nullifiers
    /\ ( /\ last.op = "vote"
         /\ lastKnown
         /\ last.voteValue \in {0, 1, 2}
         /\ prev.now <= lastBefore.deadline
         /\ last.nullifierHash \in lastBefore.nullifiers ) =>
           last.result = "NullifierAlreadyUsed"

\* A second vote with the nullifierHash of an accepted yes vote, now voting
\* no, was refused.
C1_Witness ==
    /\ last.op = "vote"
    /\ last.result = "NullifierAlreadyUsed"
    /\ last.voteValue = 0
    /\ lastAfter.nullifiers = {last.nullifierHash}
    /\ lastAfter.yesVotes = 1

\* C2: when the verifier answers false, vote fails with InvalidProof and the
\* block time and the whole storage are as before the call and no event is
\* emitted; a vote call that changed anything had the verifier's true answer.
C2_RejectedProofChangesNothing ==
    last.op = "vote" =>
        /\ last.verified = "false" =>
               /\ last.result = "InvalidProof"
               /\ Snapshot = prev
               /\ last.event = <<>>
        /\ last.result = "InvalidProof" => last.verified = "false"
        /\ Snapshot # prev => (last.verified = "true" /\ last.result = "OK")

\* The verifier refused a proof for a proposal that already holds a vote.
C2_Witness ==
    /\ last.op = "vote"
    /\ last.verified = "false"
    /\ lastAfter.nullifiers # {}

\* C3: an accepted vote records its nullifierHash for its proposal (it was
\* not recorded before), adds one to the tally its value selects (0 no, 1 yes,
\* 2 abstain), leaves the two other tallies of the proposal as they were, and
\* leaves every other proposal as it was.
C3_AcceptedVoteEffect ==
    (last.op = "vote" /\ last.result = "OK") =>
        /\ last.nullifierHash \notin lastBefore.nullifiers
        /\ lastAfter.nullifiers = lastBefore.nullifiers \cup {last.nullifierHash}
        /\ lastAfter.noVotes =
               lastBefore.noVotes + (IF last.voteValue = 0 THEN 1 ELSE 0)
        /\ lastAfter.yesVotes =
               lastBefore.yesVotes + (IF last.voteValue = 1 THEN 1 ELSE 0)
        /\ lastAfter.abstainVotes =
               lastBefore.abstainVotes + (IF last.voteValue = 2 THEN 1 ELSE 0)
        /\ \A q \in ProposalIds \ {last.pid} : proposals[q] = prev.proposals[q]

\* A yes vote was accepted on a proposal that already held a no vote, while
\* another proposal holds votes of its own.
C3_Witness ==
    /\ last.op = "vote"
    /\ last.result = "OK"
    /\ last.voteValue = 1
    /\ lastBefore.noVotes = 1
    /\ \E q \in ProposalIds \ {last.pid} : proposals[q].nullifiers # {}

\* C4: the verifier is called by vote alone, and only when the proposal is
\* known, the vote value is in {0,1,2}, the deadline has not passed and the
\* nullifierHash is not yet recorded for the proposal.
C4_VerifierAfterLocalChecks ==
    last.verified # "none" =>
        /\ last.op = "vote"
        /\ lastKnown
        /\ last.voteValue \in {0, 1, 2}
        /\ prev.now <= lastBefore.deadline
        /\ last.nullifierHash \notin lastBefore.nullifiers

\* A vote with a value outside {0,1,2} on a known, open proposal with an
\* unused nullifierHash was refused without the verifier being called.
C4_Witness ==
    /\ last.op = "vote"
    /\ last.result = "InvalidVoteValue"
    /\ last.verified = "none"
    /\ lastKnown
    /\ prev.now <= lastBefore.deadline
    /\ last.nullifierHash \notin lastBefore.nullifiers

\* C5: a vote, executeProposal or getProposalVotes call that fails leaves the
\* block time and the whole storage (root, proposalCount, every proposal's
\* fields and nullifier set, the global used-nullifier set) as they were.
C5_FailedCallChangesNothing ==
    ( /\ last.op \in {"vote", "executeProposal", "getProposalVotes"}
      /\ last.result # "OK" ) => Snapshot = prev

\* executeProposal was refused on a proposal that is still open and holds a
\* vote.
C5_Witness ==
    /\ last.op = "executeProposal"
    /\ last.result = "VotingEnded"
    /\ lastAfter.nullifiers # {}
    /\ ~lastAfter.executed

\* C6: cross-proposal independence.  A vote on a known, open proposal with a
\* value in {0,1,2} and a nullifierHash not recorded for that proposal, but
\* recorded for another proposal, reaches the verifier and is accepted when
\* the verifier answers true.
C6_CrossProposalIndependence ==
    ( /\ last.op = "vote"
      /\ lastKnown
      /\ last.voteValue \in {0, 1, 2}
      /\ prev.now <= lastBefore.deadline
      /\ last.nullifierHash \notin lastBefore.nullifiers
      /\ \E q \in ProposalIds \ {last.pid} :
             last.nullifierHash \in prev.proposals[q].nullifiers ) =>
        /\ last.verified # "none"
        /\ last.verified = "true" => last.result = "OK"

\* A vote was accepted whose nullifierHash another proposal had recorded.
C6_Witness ==
    /\ last.op = "vote"
    /\ last.result = "OK"
    /\ \E q \in ProposalIds \ {last.pid} :
           last.nullifierHash \in prev.proposals[q].nullifiers

\* C7: deadline boundary.  On a known proposal and with a value in {0,1,2},
\* a vote called at a block time after the deadline fails with VotingEnded; a
\* vote called at a block time equal to the deadline, with a nullifierHash not
\* yet recorded, reaches the verifier and is accepted when it answers true.
C7_DeadlineBoundary ==
    (last.op = "vote" /\ lastKnown /\ last.voteValue \in {0, 1, 2}) =>
        /\ prev.now > lastBefore.deadline => last.result = "VotingEnded"
        /\ ( /\ prev.now = lastBefore.deadline
             /\ last.nullifierHash \notin lastBefore.nullifiers ) =>
               /\ last.verified # "none"
               /\ last.verified = "true" => last.result = "OK"

\* One time unit after the deadline a vote was refused on a proposal that had
\* accepted a vote at its deadline.
C7_Witness ==
    /\ last.op = "vote"
    /\ last.result = "VotingEnded"
    /\ prev.now = lastBefore.deadline + 1
    /\ lastBefore.nullifiers # {}
    /\ last.nullifierHash \notin lastBefore.nullifiers
    /\ last.voteValue \in {0, 1, 2}

\* The error vote reports once the deadline has passed.
VoteClosedError == "VotingEnded"

\* C8: executeProposal on a known, not yet executed proposal, called while
\* the block time is at or before the deadline, fails with an error of its
\* own, different from the one vote reports after the deadline, and changes
\* nothing.
C8_ExecuteTooEarlyOwnError ==
    ( /\ last.op = "executeProposal"
      /\ lastKnown
      /\ ~lastBefore.executed
      /\ prev.now <= lastBefore.deadline ) =>
        /\ last.result \notin {"OK", VoteClosedError}
        /\ Snapshot = prev

\* C9: executeProposal succeeds exactly when the proposal is known, not yet
\* executed and the block time is after the deadline; on success the executed
\* flag is set; on an executed proposal it fails with ProposalAlreadyExecuted;
\* no call clears an executed flag (so it succeeds at most once per proposal).
C9_ExecuteOnce ==
    /\ last.op = "executeProposal" =>
           /\ last.result = "OK" <=>
                  ( /\ lastKnown
                    /\ ~lastBefore.executed
                    /\ prev.now > lastBefore.deadline )
           /\ last.result = "OK" => lastAfter.executed
           /\ (lastKnown /\ lastBefore.executed) =>
                  last.result = "ProposalAlreadyExecuted"
    /\ \A q \in ProposalIds : prev.proposals[q].executed => proposals[q].executed

\* executeProposal was called again on an executed proposal and refused.
C9_Witness ==
    /\ last.op = "executeProposal"
    /\ last.result = "ProposalAlreadyExecuted"
    /\ lastBefore.executed
    /\ lastAfter.executed

\* C10: the lifecycle is one-way.  Block time never decreases and the deadline
\* of a known proposal never changes; a vote is accepted only at a block time
\* at or before the deadline and only on a proposal that is not executed;
\* executeProposal succeeds only at a block time after the deadline; every
\* executed proposal is past its deadline (so no vote is accepted on it).
C10_Lifecycle ==
    /\ now >= prev.now
    /\ \A q \in ProposalIds :
           q < prev.proposalCount =>
               proposals[q].deadline = prev.proposals[q].deadline
    /\ (last.op = "vote" /\ last.result = "OK") =>
           /\ prev.now <= lastBefore.deadline
           /\ ~lastBefore.executed
    /\ (last.op = "executeProposal" /\ last.result = "OK") =>
           prev.now > lastBefore.deadline
    /\ \A q \in ProposalIds :
           proposals[q].executed =>
               (q < proposalCount /\ now > proposals[q].deadline)

\* A vote was refused on an executed proposal that holds an earlier vote.
C10_Witness ==
    /\ last.op = "vote"
    /\ last.result = "VotingEnded"
    /\ lastBefore.executed
    /\ lastBefore.nullifiers # {}

\* C11: a createProposal call that returns hands out the proposalCount held
\* before the call as the new id and increases proposalCount by exactly one;
\* the new proposal has deadline = block time + duration, all three tallies 0,
\* executed false and no nullifier; every other proposal and the nullifier
\* registry are unchanged, and no slot at or above proposalCount was written
\* (so ids are 0, 1, 2, ... in creation order).
C11_CreateProposalEffect ==
    /\ (last.op = "createProposal" /\ last.result = "OK") =>
           /\ last.ret = <<prev.proposalCount>>
           /\ last.pid = prev.proposalCount
           /\ proposalCount = prev.proposalCount + 1
           /\ lastAfter = [EmptyProposal EXCEPT
                               !.description = lastAfter.description,
                               !.deadline = prev.now + last.duration]
           /\ lastAfter.description \in Descriptions
           /\ \A q \in ProposalIds \ {last.pid} :
                  proposals[q] = prev.proposals[q]
           /\ usedNullifiers = prev.usedNullifiers
    /\ \A q \in ProposalIds : q >= proposalCount => proposals[q] = EmptyProposal

\* The second proposal was created at block time 1 with duration 1, next to a
\* first proposal that already holds a vote.
C11_Witness ==
    /\ last.op = "createProposal"
    /\ last.result = "OK"
    /\ last.pid = 1
    /\ prev.now = 1
    /\ last.duration = 1
    /\ proposals[0].nullifiers # {}

\* C12 (as stated): createProposal never fails, whatever the duration.
C12_AlwaysSucceeds ==
    last.op = "createProposal" =>
        (last.result = "OK" /\ last.ret = <<prev.proposalCount>>)

\* C12 (amended): createProposal succeeds exactly when block time + duration
\* fits the unsigned integer type; when the sum exceeds the width the call
\* reverts with an arithmetic panic, returns no id and changes no state.
C12_SucceedsUnlessOverflow ==
    last.op = "createProposal" =>
        /\ last.result = "OK" <=> prev.now + last.duration <= UintMax
        /\ last.result = "OK" => last.ret = <<prev.proposalCount>>
        /\ last.result # "OK" =>
               /\ last.result = "Panic"
               /\ last.ret = <<>>
               /\ last.event = <<>>
               /\ Snapshot = prev

\* createProposal was refused for an overflowing deadline after an earlier
\* proposal had been created.
C12_Witness ==
    /\ last.op = "createProposal"
    /\ last.result = "Panic"
    /\ prev.now + last.duration > UintMax
    /\ proposalCount = 1

\* C13: vote, getProposalVotes and executeProposal fail with
\* ProposalDoesNotExist exactly when proposalId >= proposalCount, that is when
\* createProposal never returned the id; proposalCount never decreases, so a
\* known id stays known.
C13_UnknownProposal ==
    /\ last.op \in {"vote", "getProposalVotes", "executeProposal"} =>
           (last.result = "ProposalDoesNotExist" <=>
                last.pid >= prev.proposalCount)
    /\ (last.op = "createProposal" /\ last.result = "OK") =>
           last.ret[1] \in prev.proposalCount .. (proposalCount - 1)
    /\ proposalCount >= prev.proposalCount

\* The first id never handed out was refused while a smaller id is known.
C13_Witness ==
    /\ last.op \in {"vote", "getProposalVotes", "executeProposal"}
    /\ last.result = "ProposalDoesNotExist"
    /\ last.pid = proposalCount
    /\ proposalCount = 1

\* C14: getProposalVotes on a known proposal returns (yesVotes, noVotes,
\* abstainVotes) in that order, which are the numbers of VoteCast events on the
\* proposal with value 1, 0 and 2; it changes neither block time nor storage;
\* in every state the tallies of a proposal add up to the number of its
\* recorded nullifiers.
C14_GetProposalVotesPureRead ==
    /\ (last.op = "getProposalVotes" /\ last.result = "OK") =>
           /\ last.ret = <<lastAfter.yesVotes, lastAfter.noVotes,
                           lastAfter.abstainVotes>>
           /\ last.ret = <<voteCastLog[last.pid][1], voteCastLog[last.pid][0],
                           voteCastLog[last.pid][2]>>
           /\ Snapshot = prev
    /\ \A q \in ProposalIds :
           proposals[q].yesVotes + proposals[q].noVotes
               + proposals[q].abstainVotes = Cardinality(proposals[q].nullifiers)

\* The tallies of a proposal with one yes and one abstain vote were read.
C14_Witness ==
    /\ last.op = "getProposalVotes"
    /\ last.result = "OK"
    /\ last.ret = <<1, 0, 1>>

\* C15: whenever vote consults the verifier it passes exactly
\* [merkleRoot, nullifierHash, proposalId, voteValue], the root fixed at
\* construction followed by the three arguments of the call; a vote is
\* accepted only if the verifier answered true on that input; the circuit's
\* public signals and the member tool's verify command list the same four
\* values in the same order.
C15_PublicInputOrder ==
    (last.op = "vote" /\ last.verified # "none") =>
        /\ last.input =
               <<DeployedRoot, last.nullifierHash, last.pid, last.voteValue>>
        /\ last.result = "OK" <=> last.verified = "true"
        /\ last.input =
               circuitPublicSignals([root |-> merkleRoot,
                                     nullifierHash |-> last.nullifierHash,
                                     proposalId |-> last.pid,
                                     voteValue |-> last.voteValue])
        /\ \A word \in DOMAIN voteMap :
               voteMap[word] = last.voteValue =>
                   last.input =
                       verifyPublicSignals(merkleRoot,
                                           [nullifierHash |-> last.nullifierHash,
                                            proposalId |-> last.pid,
                                            vote |-> word])

\* A yes vote with nullifier 2 was accepted on proposal 1.
C15_Witness ==
    /\ last.op = "vote"
    /\ last.result = "OK"
    /\ last.verified = "true"
    /\ last.pid = 1
    /\ last.nullifierHash = 2
    /\ last.voteValue = 1

\* The vote calls that pass the four local checks and differ from the
\* accepted call in at least one public input.
ReplayCalls ==
    {c \in ProposalIds \X Nullifiers \X VoteValues :
        /\ <<DeployedRoot, c[2], c[1], c[3]>> # last.input
        /\ voteLocalError(c[1], c[2], c[3]) = ""}

C17_RootImmutable ==
    /\ merkleRoot = DeployedRoot
    /\ prev.merkleRoot = DeployedRoot
    /\ (last.op = "none" /\ prev.now = now) => proposalCount = 0

\* Proposals were created, voted on and executed: the root is still the
\* constructor's.
C17_Witness ==
    /\ proposalCount = MaxProposals
    /\ \E q \in ProposalIds :
           proposals[q].executed /\ proposals[q].nullifiers # {}
    /\ merkleRoot = DeployedRoot

\* The cast command got as far as building the tree for a member of the file.
castReachedTree == lastCast.result \in {"TypeError", "ProveError", "OK"}

\* The member the last cast command voted for.
castMember == at(members, lastCast.member)

\* C18: for every member with nullifier # 0 and secret # 0 whose commitment
\* is a leaf of the tree the tool builds, a nonzero proposal id and a vote of
\* no, yes or abstain, the cast command assembles a witness (root = the tree
\* root, nullifierHash = Poseidon(nullifier), the member's secrets and the
\* path of the tool's inclusion proof) that satisfies every constraint of the
\* Vote circuit.
C18_Completeness ==
    ( /\ castReachedTree
      /\ castMember.nullifier # 0
      /\ castMember.secret # 0
      /\ lastCast.proposal # 0 ) =>
        /\ lastCast.result = "OK"
        /\ lastCast.witness =
               castWitness(castMember, lastCast.proposal,
                           voteMap[toLowerCase(lastCast.vote)],
                           getRoot(merkleTreeHeight, leavesOf(members)),
                           getProof(merkleTreeHeight, leavesOf(members),
                                    lastCast.member))
        /\ VoteCircuit(circuitLevels, lastCast.witness)

\* C19: with a members file of 4 members and a registry that has created no
\* proposal yet (so that the first id it hands out is 0), the witness cast
\* assembles for member index 2 voting yes on proposal 0 satisfies the Vote
\* circuit.  (That the registry then accepts the vote, reports (1, 0, 0) and
\* refuses the nullifier hash a second time is C3, C14 and C1.)
C19_EndToEnd ==
    ( /\ castReachedTree
      /\ Len(members) = 4
      /\ \A k \in 1..4 : members[k].nullifier # 0 /\ members[k].secret # 0
      /\ lastCast.member = 2
      /\ toLowerCase(lastCast.vote) = "yes"
      /\ proposalCount = 0
      /\ lastCast.proposal = proposalCount ) =>
        /\ lastCast.result = "OK"
        /\ VoteCircuit(circuitLevels, lastCast.witness)

\* The nodes of a level of the tree built over the members' commitments.
levelNodes(level) ==
    LET currentLevel == layers(leavesOf(members), level)
    IN {currentLevel[j] : j \in 1..Len(currentLevel)}

\* C20: for every leaf sequence that fits the tree and every index below its
\* length, hashing the leaf upward along the proof getProof returns, left or
\* right by the path index, yields the root getRoot returns, and every path
\* element is a node of its level or that level's zero value.
C20_InclusionProofCorrect ==
    (castReachedTree /\ Len(members) <= pow2(merkleTreeHeight - 1)) =>
        LET proof == lastCast.proof
        IN /\ currentLevelHash(castMember.commitment, proof.pathElements,
                               proof.pathIndices, Len(proof.pathElements))
                  = lastCast.root
           /\ \A k \in DOMAIN proof.pathElements :
                  proof.pathElements[k] \in
                      levelNodes(k - 1) \cup {zero_values(k - 1)}

\* C21: the inclusion proof cast obtains for a member has as many
\* pathElements and as many pathIndices as the circuit has levels (the tool's
\* configured height), and the tool's root is the node the tree reaches after
\* that many hashing levels.
C21_ProofShape ==
    castReachedTree =>
        /\ Len(lastCast.proof.pathElements) = circuitLevels
        /\ Len(lastCast.proof.pathIndices) = circuitLevels
        /\ lastCast.root = at(layers(leavesOf(members), circuitLevels), 0)

\* getRoot() of the tree object of the tree test.
treeRoot == at(tree.layers[tree.levels], 0)

\* The root MerkleTreeChecker computes from a leaf and an inclusion proof.
foldProof(leaf, proof) ==
    currentLevelHash(leaf, proof.pathElements, proof.pathIndices,
                     Len(proof.pathElements))

\* The test asked the built tree for the proof of one of its leaves.
proofReturned ==
    /\ tree # NoTree
    /\ treeOp.op = "getProof"
    /\ treeOp.index < Len(commitments)

\* C22: a tree of height d (the configured merkleTreeHeight) holds up to 2^d
\* leaves: for every leaf list of at most 2^d leaves, replacing any single
\* leaf by a different value changes the root, and the inclusion proof of
\* every index recomputes to the root.
C22_Capacity ==
    (tree # NoTree /\ Len(commitments) <= pow2(merkleTreeHeight)) =>
        /\ \A i \in 1..Len(commitments) :
               \A x \in LeafValues \ {commitments[i]} :
                   getRoot(tree.levels, [commitments EXCEPT ![i] = x])
                       # treeRoot
        /\ proofReturned =>
               foldProof(at(commitments, treeOp.index), treeOp.proof) = treeRoot

\* The inclusion proof returned recomputes to the root of the tree.
validProof ==
    /\ proofReturned
    /\ foldProof(at(commitments, treeOp.index), treeOp.proof) = treeRoot

\* Values put in the place of a path element: leaf values, zero values and
\* the nodes of the tree.
TamperValues ==
    LeafValues
        \cup {zero_values(l) : l \in 0..merkleTreeHeight}
        \cup UNION {{tree.layers[l][j] : j \in 1..Len(tree.layers[l])} :
                       l \in 1..tree.levels}

\* The root recomputed after one path element was replaced.
foldReplaced(k, x) ==
    foldProof(at(commitments, treeOp.index),
              [treeOp.proof EXCEPT !.pathElements[k] = x])

\* The root recomputed after one path index bit was flipped.
foldFlipped(k) ==
    foldProof(at(commitments, treeOp.index),
              [treeOp.proof EXCEPT !.pathIndices[k] = 1 - @])

\* The node the path passes at the level of the k-th path element.
pathNode(k) ==
    currentLevelHash(at(commitments, treeOp.index), treeOp.proof.pathElements,
                     treeOp.proof.pathIndices, k - 1)

\* C23 (as stated): in a valid inclusion proof, replacing any single path
\* element by a different value or flipping any single path index bit makes
\* the recomputed root differ from the root, for every leaf list.
C23_TamperSensitive ==
    validProof =>
        \A k \in DOMAIN treeOp.proof.pathElements :
            /\ \A x \in TamperValues \ {treeOp.proof.pathElements[k]} :
                   foldReplaced(k, x) # treeRoot
            /\ foldFlipped(k) # treeRoot

\* C23 (amended): in a valid inclusion proof, replacing any single path
\* element by a different value makes the recomputed root differ; flipping a
\* path index bit makes it differ exactly when the node on the path differs
\* from its sibling at that level, and leaves it the same when the two are
\* equal (equal adjacent leaves or subtrees, or an unmatched node that equals
\* the level's zero value).
C23_TamperSensitiveUnlessEqualSibling ==
    validProof =>
        \A k \in DOMAIN treeOp.proof.pathElements :
            /\ \A x \in TamperValues \ {treeOp.proof.pathElements[k]} :
                   foldReplaced(k, x) # treeRoot
            /\ foldFlipped(k) # treeRoot <=>
                   treeOp.proof.pathElements[k] # pathNode(k)

\* A valid proof in a tree of two equal leaves next to a different pair: the
\* bit of the lowest level can be flipped without effect, the next one not.
C23_Witness ==
    /\ validProof
    /\ Len(commitments) = 4
    /\ treeOp.proof.pathElements[1] = pathNode(1)
    /\ treeOp.proof.pathElements[2] # pathNode(2)
    /\ foldFlipped(1) = treeRoot
    /\ foldFlipped(2) # treeRoot

\* C24: the members file never holds a member whose nullifier or secret is 0.
C24_NoZeroMember ==
    \A k \in 1..Len(members) :
        members[k].nullifier # 0 /\ members[k].secret # 0

\* The witness last proved is an honest one: nonzero nullifier, secret and
\* proposal id, untampered root, nullifier hash and inclusion proof.
honestProve ==
    /\ lastProve.done
    /\ \E n \in 1..MaxField, s \in 1..MaxField, p \in ProposalIds \ {0},
          i \in {0, 1} :
           lastProve.witness =
               HonestWitness(n, s, p, lastProve.witness.voteValue, i)

\* C25: the circuit's constraint voteValue*(voteValue-1)*(voteValue-2) = 0
\* over the prime field is satisfied exactly by 0, 1 and 2, the values the
\* registry admits (it rejects voteValue > 2): the prover accepts no witness
\* whose vote value the registry rejects, and accepts an otherwise honest
\* witness exactly when the registry admits its vote value.
C25_VoteValueRoots ==
    lastProve.done =>
        LET voteValue == lastProve.witness.voteValue
        IN /\ lastProve.satisfied => voteValue \in {0, 1, 2}
           /\ lastProve.satisfied => ~InvalidVoteValue(voteValue)
           /\ honestProve =>
                  /\ lastProve.satisfied <=> voteValue \in {0, 1, 2}
                  /\ lastProve.satisfied <=> ~InvalidVoteValue(voteValue)

\* The prover accepted an honest witness voting 2 (abstain), the largest
\* root of the polynomial.
C25_Witness ==
    /\ honestProve
    /\ lastProve.witness.voteValue = 2
    /\ lastProve.satisfied

\* An honest witness with a vote value above 2 was rejected.
C25_WitnessRejected ==
    /\ honestProve
    /\ lastProve.witness.voteValue > 2
    /\ ~lastProve.satisfied

\* C26: the Vote circuit has no satisfying assignment with nullifier = 0,
\* secret = 0 or proposalId = 0: a witness in which one of the three is zero
\* is rejected whatever its other signals are.
C26_NoZeroAssignment ==
    (/\ lastProve.done
     /\ \/ lastProve.witness.nullifier = 0
        \/ lastProve.witness.secret = 0
        \/ lastProve.witness.proposalId = 0)
        => ~lastProve.satisfied

\* A witness for proposal 0 that meets every other constraint (vote value,
\* nonzero nullifier and secret, nullifier hash, tree membership) was
\* rejected.
C26_Witness ==
    /\ lastProve.done
    /\ lastProve.witness.proposalId = 0
    /\ lastProve.witness.nullifier # 0
    /\ lastProve.witness.secret # 0
    /\ voteValueConstraint(lastProve.witness.voteValue)
    /\ Poseidon1(Fe(lastProve.witness.nullifier)) = lastProve.witness.nullifierHash
    /\ MerkleTreeChecker(circuitLevels,
                         Poseidon2(commitment(lastProve.witness.nullifier,
                                              lastProve.witness.secret),
                                   Fe(0)),
                         lastProve.witness.root,
                         lastProve.witness.pathElements,
                         lastProve.witness.pathIndices)
    /\ ~lastProve.satisfied

C28_Events ==
    /\ (last.op = "createProposal" /\ last.result = "OK") =>
           last.event = <<"ProposalCreated", prev.proposalCount,
                          prev.now + last.duration>>
    /\ (last.op = "vote" /\ last.result = "OK") =>
           last.event = <<"VoteCast", last.pid, last.nullifierHash,
                          last.voteValue>>
    /\ (last.op = "executeProposal" /\ last.result = "OK") =>
           last.event = <<"ProposalExecuted", last.pid>>
    /\ last.result # "OK" => last.event = <<>>
    /\ last.op \in {"none", "getProposalVotes"} => last.event = <<>>

\* A vote that the verifier refused emitted nothing, on a proposal whose
\* earlier accepted vote had emitted VoteCast.
C28_Witness ==
    /\ last.op = "vote"
    /\ last.result = "InvalidProof"
    /\ last.event = <<>>
    /\ lastAfter.nullifiers # {}

\* executeProposal succeeded and emitted ProposalExecuted.
C28_WitnessExecuted ==
    /\ last.op = "executeProposal"
    /\ last.result = "OK"
    /\ last.event = <<"ProposalExecuted", last.pid>>

\* The number of VoteCast events emitted for a proposal.
votesCast(proposalId) ==
    voteCastLog[proposalId][0] + voteCastLog[proposalId][1]
        + voteCastLog[proposalId][2]

\* The sum of the three tallies of a proposal.
tallyTotal(proposal) ==
    proposal.yesVotes + proposal.noVotes + proposal.abstainVotes

\* C29: serialized execution.  In every order in which vote calls are
\* executed, the votes accepted for a proposal are as many as the distinct
\* nullifierHashes recorded for it and as many as its tallies add up to (so
\* of the calls carrying one (proposalId, nullifierHash) exactly the first
\* valid one was accepted and the tallies grew by one for it); every later
\* call with that pair that is otherwise valid fails with the
\* nullifier-reuse error and changes nothing.
C29_SerializedVotes ==
    /\ \A q \in ProposalIds :
           /\ votesCast(q) = Cardinality(proposals[q].nullifiers)
           /\ tallyTotal(proposals[q]) = Cardinality(proposals[q].nullifiers)
    /\ ( /\ last.op = "vote"
         /\ lastKnown
         /\ ~InvalidVoteValue(last.voteValue)
         /\ prev.now <= lastBefore.deadline
         /\ last.nullifierHash \in lastBefore.nullifiers ) =>
           /\ last.result = "NullifierAlreadyUsed"
           /\ tallyTotal(lastAfter) = tallyTotal(lastBefore)
           /\ lastAfter.nullifiers = lastBefore.nullifiers

\* Two nullifierHashes were accepted for a proposal and a further call
\* repeating one of them was refused: the tallies still add up to two.
C29_Witness ==
    /\ last.op = "vote"
    /\ last.result = "NullifierAlreadyUsed"
    /\ Cardinality(lastAfter.nullifiers) = 2
    /\ tallyTotal(lastAfter) = 2
    /\ votesCast(last.pid) = 2

\* The position, in its layer, of the node the path of the requested leaf
\* passes at the level of the k-th path element.
pathPosition(k) == treeOp.index \div pow2(k - 1)

\* C30: zeroValues[0] = 0 and zeroValues[i] = Hash(zeroValues[i-1],
\* zeroValues[i-1]); every parent of the built tree is Hash(left, right) of
\* adjacent nodes taken left to right, the last parent of a level with an odd
\* number of nodes is Hash(last, zeroValues[level]); and the inclusion proof
\* gives that zero value as the sibling of an unmatched node.
C30_OddLevelTieBreak ==
    tree # NoTree =>
        /\ zero_values(0) = Fe(0)
        /\ \A i \in 1..tree.levels :
               zero_values(i) = Poseidon2(zero_values(i - 1), zero_values(i - 1))
        /\ \A l \in 1..(tree.levels - 1) :
               LET current == tree.layers[l]
                   parents == tree.layers[l + 1]
               IN /\ Len(parents) = (Len(current) + 1) \div 2
                  /\ \A j \in 1..Len(parents) :
                         parents[j] =
                             Poseidon2(current[2 * j - 1],
                                       IF 2 * j <= Len(current)
                                       THEN current[2 * j]
                                       ELSE zero_values(l - 1))
        /\ proofReturned =>
               \A k \in DOMAIN treeOp.proof.pathElements :
                   ( /\ pathPosition(k) % 2 = 0
                     /\ pathPosition(k) + 1 = Len(tree.layers[k]) ) =>
                       treeOp.proof.pathElements[k] = zero_values(k - 1)

\* Hashing upward from a leaf: the pair is (current, pathElements[i]) when
\* pathIndices[i] = 0 and (pathElements[i], current) when it is 1.
RECURSIVE hashUpward(_, _, _, _)
hashUpward(leaf, pathElements, pathIndices, i) ==
    IF i = 0 THEN leaf
    ELSE LET current == hashUpward(leaf, pathElements, pathIndices, i - 1)
         IN CASE pathIndices[i] = 0 -> Poseidon2(current, pathElements[i])
              [] pathIndices[i] = 1 -> Poseidon2(pathElements[i], current)
              [] OTHER -> Undefined

\* The proof returned and the proofs made from it by flipping one path
\* index, by setting one path index to 2, or by replacing one path element.
proofVariants ==
    {treeOp.proof}
        \cup {[treeOp.proof EXCEPT !.pathIndices[k] = 1 - @] :
                 k \in DOMAIN treeOp.proof.pathIndices}
        \cup {[treeOp.proof EXCEPT !.pathIndices[k] = 2] :
                 k \in DOMAIN treeOp.proof.pathIndices}
        \cup {[treeOp.proof EXCEPT !.pathElements[k] = x] :
                 k \in DOMAIN treeOp.proof.pathElements, x \in TamperValues}

\* The node of the built tree the path of the requested leaf passes at the
\* level of the k-th path element, and the node buildTree paired it with.
treeNode(k) == tree.layers[k][pathPosition(k) + 1]

treeSibling(k) ==
    IF pathPosition(k) % 2 = 1 THEN tree.layers[k][pathPosition(k)]
    ELSE IF pathPosition(k) + 1 < Len(tree.layers[k])
    THEN tree.layers[k][pathPosition(k) + 2]
    ELSE zero_values(k - 1)

\* C31: MerkleTreeChecker is satisfied exactly when every pathIndices[i] is
\* 0 or 1 and hashing upward from the leaf, with the pair ordered (current,
\* pathElements[i]) for index 0 and (pathElements[i], current) for index 1,
\* gives the public root; the tree uses the same convention: pathIndices[k]
\* of the proof it returns is bit k of the leaf index, and each parent on the
\* path is the hash of the node and its sibling in that order.
C31_MembershipCheck ==
    proofReturned =>
        /\ \A k \in DOMAIN treeOp.proof.pathIndices :
               /\ treeOp.proof.pathIndices[k] = pathPosition(k) % 2
               /\ tree.layers[k + 1][pathPosition(k + 1) + 1] =
                      IF treeOp.proof.pathIndices[k] = 0
                      THEN Poseidon2(treeNode(k), treeSibling(k))
                      ELSE Poseidon2(treeSibling(k), treeNode(k))
        /\ \A p \in proofVariants :
               MerkleTreeChecker(Len(p.pathElements),
                                 at(commitments, treeOp.index), treeRoot,
                                 p.pathElements, p.pathIndices)
                   <=> /\ \A i \in DOMAIN p.pathIndices :
                              p.pathIndices[i] \in {0, 1}
                       /\ hashUpward(at(commitments, treeOp.index),
                                     p.pathElements, p.pathIndices,
                                     Len(p.pathElements)) = treeRoot

\* The proof of the last of four leaves (path indices 1, 1) satisfies the
\* checker, and the same proof with its first path index set to 2 does not.
C31_Witness ==
    /\ proofReturned
    /\ Len(commitments) = 4
    /\ treeOp.index = 3
    /\ MerkleTreeChecker(Len(treeOp.proof.pathElements),
                         at(commitments, treeOp.index), treeRoot,
                         treeOp.proof.pathElements, treeOp.proof.pathIndices)
    /\ ~MerkleTreeChecker(Len(treeOp.proof.pathElements),
                          at(commitments, treeOp.index), treeRoot,
                          treeOp.proof.pathElements,
                          [treeOp.proof.pathIndices EXCEPT ![1] = 2])

\* C32: getProof(index) on a tree constructed with `levels` levels returns
\* exactly levels - 1 pathElements and exactly levels - 1 pathIndices, for
\* every leaf index.
C32_ProofLength ==
    proofReturned =>
        /\ Len(treeOp.proof.pathElements) = tree.levels - 1
        /\ Len(treeOp.proof.pathIndices) = tree.levels - 1

\* The proof of the last of four leaves was returned by a tree of
\* merkleTreeHeight levels.
C32_Witness ==
    /\ proofReturned
    /\ Len(commitments) = 4
    /\ treeOp.index = 3
    /\ tree.levels = merkleTreeHeight
    /\ Len(treeOp.proof.pathElements) = merkleTreeHeight - 1

\* C33: error precedence in vote.  When several failure conditions hold at
\* once the error reported is the first in the order unknown proposal,
\* invalid vote value, voting closed, nullifier already used, proof
\* rejected; the call succeeds when none holds.
C33_ErrorPrecedence ==
    last.op = "vote" =>
        last.result =
            IF last.pid >= prev.proposalCount THEN "ProposalDoesNotExist"
            ELSE IF last.voteValue > 2 THEN "InvalidVoteValue"
            ELSE IF prev.now > lastBefore.deadline THEN "VotingEnded"
            ELSE IF last.nullifierHash \in lastBefore.nullifiers
            THEN "NullifierAlreadyUsed"
            ELSE IF last.verified = "false" THEN "InvalidProof"
            ELSE "OK"

\* An invalid vote value on a closed proposal, with a nullifierHash already
\* recorded, was refused with InvalidVoteValue.
C33_Witness ==
    /\ last.op = "vote"
    /\ lastKnown
    /\ last.voteValue > 2
    /\ prev.now > lastBefore.deadline
    /\ last.nullifierHash \in lastBefore.nullifiers
    /\ last.result = "InvalidVoteValue"

\* A recorded nullifierHash with a valid vote value after the deadline was
\* refused with VotingEnded.
C33_WitnessClosedReuse ==
    /\ last.op = "vote"
    /\ lastKnown
    /\ last.voteValue <= 2
    /\ prev.now > lastBefore.deadline
    /\ last.nullifierHash \in lastBefore.nullifiers
    /\ last.result = "VotingEnded"

\* C34: adding a member invalidates the root.  For every leaf list that
\* leaves room in the tree (fewer than 2^merkleTreeHeight leaves) and every
\* additional leaf value, the root of the tree built from the list followed
\* by that value differs from the root of the tree built from the list.
C34_AddedLeafChangesRoot ==
    (tree # NoTree /\ Len(commitments) < pow2(merkleTreeHeight)) =>
        \A x \in LeafValues :
            at(MerkleTree(tree.levels, Append(commitments, x)).layers[tree.levels], 0)
                # treeRoot

\* C35: the global used-nullifier set is redundant.  In every reachable state
\* it holds exactly the nullifierHashes recorded for at least one proposal;
\* and it gates nothing: a vote fails with NullifierAlreadyUsed exactly when
\* its nullifierHash is recorded for its own proposal (the proposal being
\* known and open and the value valid), whether or not the hash is in the
\* global set.
C35_RedundantGlobalSet ==
    /\ usedNullifiers = UNION {proposals[q].nullifiers : q \in ProposalIds}
    /\ last.op = "vote" =>
           /\ last.result = "NullifierAlreadyUsed" =>
                  (lastKnown /\ last.nullifierHash \in lastBefore.nullifiers)
           /\ ( /\ lastKnown
                /\ ~InvalidVoteValue(last.voteValue)
                /\ prev.now <= lastBefore.deadline
                /\ last.nullifierHash \in prev.usedNullifiers
                /\ last.nullifierHash \notin lastBefore.nullifiers ) =>
                  /\ last.verified # "none"
                  /\ last.result \in {"OK", "InvalidProof"}

\* A vote was accepted whose nullifierHash was already in the global set
\* (recorded for another proposal), and the set still equals the union.
C35_Witness ==
    /\ last.op = "vote"
    /\ last.result = "OK"
    /\ last.nullifierHash \in prev.usedNullifiers
    /\ Cardinality(usedNullifiers) = 2
    /\ \E q \in ProposalIds \ {last.pid} :
           last.nullifierHash \in proposals[q].nullifiers

\* C37: tally conservation.  For every proposal the three tallies add up to
\* the number of nullifierHashes recorded for it, and no call decreases any
\* of the three tallies.
C37_TallyConservation ==
    \A q \in ProposalIds :
        /\ proposals[q].yesVotes + proposals[q].noVotes
               + proposals[q].abstainVotes
               = Cardinality(proposals[q].nullifiers)
        /\ proposals[q].yesVotes >= prev.proposals[q].yesVotes
        /\ proposals[q].noVotes >= prev.proposals[q].noVotes
        /\ proposals[q].abstainVotes >= prev.proposals[q].abstainVotes

\* An abstain vote was accepted on a proposal that held a yes vote: two
\* recorded nullifierHashes, tallies 1, 0, 1.
C37_Witness ==
    /\ last.op = "vote"
    /\ last.result = "OK"
    /\ last.voteValue = 2
    /\ lastAfter.yesVotes = 1
    /\ lastAfter.noVotes = 0
    /\ lastAfter.abstainVotes = 1
    /\ Cardinality(lastAfter.nullifiers) = 2

\* A proposal createProposal had returned was past its deadline when the
\* most recent step began.
closedBefore(q) ==
    /\ q < prev.proposalCount
    /\ prev.now > prev.proposals[q].deadline

\* C38: tallies are final after the deadline.  Block time never decreases;
\* once the block time is past a proposal's deadline no step changes its
\* three tallies, its nullifier set or its deadline, and it stays past the
\* deadline; an executed proposal is past its deadline, so what
\* getProposalVotes returns at or after execution is the final result.
C38_FinalAfterDeadline ==
    /\ now >= prev.now
    /\ \A q \in ProposalIds :
           /\ closedBefore(q) =>
                  /\ proposals[q].yesVotes = prev.proposals[q].yesVotes
                  /\ proposals[q].noVotes = prev.proposals[q].noVotes
                  /\ proposals[q].abstainVotes = prev.proposals[q].abstainVotes
                  /\ proposals[q].nullifiers = prev.proposals[q].nullifiers
                  /\ proposals[q].deadline = prev.proposals[q].deadline
                  /\ now > proposals[q].deadline
           /\ prev.proposals[q].executed => closedBefore(q)
    /\ ( /\ last.op = "getProposalVotes"
         /\ last.result = "OK"
         /\ closedBefore(last.pid) ) =>
           last.ret = <<lastAfter.yesVotes, lastAfter.noVotes,
                        lastAfter.abstainVotes>>

\* A vote with a valid value and a fresh nullifierHash was refused on a
\* proposal that is past its deadline and holds a vote.
C38_Witness ==
    /\ last.op = "vote"
    /\ closedBefore(last.pid)
    /\ last.voteValue <= 2
    /\ last.nullifierHash \notin lastBefore.nullifiers
    /\ lastBefore.nullifiers # {}
    /\ last.result = "VotingEnded"
    /\ lastAfter = lastBefore

\* getProposalVotes returned the tallies of an executed proposal that holds
\* a vote.
C38_WitnessExecuted ==
    /\ last.op = "getProposalVotes"
    /\ last.result = "OK"
    /\ lastBefore.executed
    /\ lastBefore.nullifiers # {}

\* C39: a successful executeProposal(p) changes only the executed flag of p:
\* the tallies, nullifier set, deadline and description of p, every other
\* proposal, proposalCount, the global used-nullifier set, the root and the
\* block time are as they were.
C39_ExecuteFrame ==
    (last.op = "executeProposal" /\ last.result = "OK") =>
        /\ proposals = [prev.proposals EXCEPT ![last.pid].executed = TRUE]
        /\ lastAfter = [lastBefore EXCEPT !.executed = TRUE]
        /\ proposalCount = prev.proposalCount
        /\ usedNullifiers = prev.usedNullifiers
        /\ merkleRoot = prev.merkleRoot
        /\ now = prev.now

\* executeProposal succeeded on a proposal that holds a vote while another
\* proposal holds a vote of its own.
C39_Witness ==
    /\ last.op = "executeProposal"
    /\ last.result = "OK"
    /\ lastAfter.executed
    /\ ~lastBefore.executed
    /\ lastAfter.nullifiers # {}
    /\ \E q \in ProposalIds \ {last.pid} : proposals[q].nullifiers # {}

\* The registry's proposal after the first k of the given records were
\* submitted to vote in order, each with an accepted proof and before the
\* deadline: a recorded nullifierHash is refused, any other is recorded and
\* tallied under the value the word maps to.
RECURSIVE registryAfter(_, _)
registryAfter(records, k) ==
    IF k = 0 THEN EmptyProposal
    ELSE LET before == registryAfter(records, k - 1)
             record == records[k]
         IN IF record.nullifierHash \in before.nullifiers
            THEN before
            ELSE tally(markNullifier(before, record.nullifierHash),
                       voteMap[toLowerCase(record.vote)])

====
